---------------------------- MODULE Spec2Model ----------------------------
(***************************************************************************)
(* ClarityCoach: the intent resolver (core/dialog.py), the chat page's     *)
(* offer state machine (app.py), the FocusTimer (core/tools.py) and the    *)
(* journal store (core/memory.py).                                         *)
(*                                                                         *)
(* A text is a sequence of tokens.  A token is a word (letters or digits,  *)
(* no whitespace inside) or WS, a run of whitespace that is more than the  *)
(* single blank which separates two neighbouring words.  Two neighbouring  *)
(* word tokens are separated by exactly one blank; the empty sequence is   *)
(* the empty string.  A regular expression of the source is the set of     *)
(* token sequences (phrases) its alternatives spell; since every word      *)
(* token is delimited by whitespace, \b(...)\b matches exactly where a     *)
(* phrase occurs as a run of neighbouring tokens.                          *)
(***************************************************************************)
EXTENDS Integers, Sequences, FiniteSets, TLC

VARIABLES
    pending_offer,  \* st.session_state["pending_offer"]; "none" when the key is absent
    timer,          \* the FocusTimer singleton of core/tools.py
    journal,        \* the rows of the journal table, oldest first
    history,        \* st.session_state.history: <<role, message>> pairs
    now,            \* the wall clock time.time(), in ticks of 1/TicksPerSecond second
    prompt,         \* the text of the turn being processed (the input of detect_intents)
    reply,          \* the reply of the last turn
    intents,        \* the list detect_intents returned for prompt
    op,             \* the operation that produced this state
    pre,            \* pending_offer, timer and journal as that operation found them
    ret,            \* what the last call of a FocusTimer method returned
    started,        \* the last start(): its minutes, its time, what followed it
    paused_at,      \* the last pause() that took effect: its time, the time then left
    ticks,          \* how many times the clock has advanced
    section,        \* st.session_state.section: the page shown
    user,           \* st.session_state.user: the login, "None" when logged out
    peer,           \* st.session_state of a second browser session
    actor,          \* the session that performed op (0: none yet)
    rows,           \* what the last get_journals(limit) returned
    streak,         \* what compute_7day_streak_from_journal returned, and its loop steps
    calls,          \* FocusTimer method calls in flight, one per thread
    utc_offset      \* the local clock datetime.now() minus the UTC clock, in ticks

vars == <<pending_offer, timer, journal, history, now, prompt, reply, intents, op, pre,
          ret, started, paused_at, ticks, section, user, peer, actor, rows, streak,
          calls, utc_offset>>

\* the variables only the FocusTimer method calls and the clock write
tvars == <<ret, started, paused_at, ticks>>

\* the pages and logins of the session, and the second session
page_vars == <<section, user, peer, actor>>

\* the results of the journal reads
read_vars == <<rows, streak>>

---------------------------------------------------------------------------
(* Bounds *)

\* longest text, in tokens, given to detect_intents
MaxLen == 4

\* most chat turns recorded in one history
MaxTurns == 3

\* resolution of the clock: time.time() is a float, a second has this many ticks
TicksPerSecond == 2

\* most clock advances in one run of the timer
MaxAdvances == 4

\* the calendar days journal entries and "today" fall on are 0..MaxDay
MaxDay == 3

\* most rows of the journal table when the streak is computed
MaxEntries == 3

---------------------------------------------------------------------------
(* Text primitives *)

WS == " "

Range(s) == {s[i] : i \in 1..Len(s)}

Max(a, b) == IF a >= b THEN a ELSE b

\* str.lower() on one token: the capitalised tokens of the vocabulary
LowerTok(w) ==
    CASE w = "Suicide" -> "suicide"
      [] w = "I"       -> "i"
      [] w = "OK"      -> "ok"
      [] OTHER         -> w

lower(t) == [i \in 1..Len(t) |-> LowerTok(t[i])]

RECURSIVE lstrip(_)
lstrip(t) == IF t # <<>> /\ Head(t) = WS THEN lstrip(Tail(t)) ELSE t

RECURSIVE rstrip(_)
rstrip(t) ==
    IF t # <<>> /\ t[Len(t)] = WS THEN rstrip(SubSeq(t, 1, Len(t) - 1)) ELSE t

strip(t) == rstrip(lstrip(t))

\* re.search(pattern, t, re.I): the pattern is the set of phrases it spells, and
\* it matches where a run of neighbouring tokens of t is one of them
Search(pattern, t) ==
    LET t_l == lower(t)
    IN  \E i \in 1..Len(t_l) : \E j \in i..Len(t_l) : SubSeq(t_l, i, j) \in pattern

---------------------------------------------------------------------------
(* core/dialog.py: the patterns *)

RISK ==
    { <<"suicide">>, <<"kill", "myself">>, <<"end", "it", "all">>,
      <<"want", "to", "die">>, <<"self", "harm">>, <<"self-harm">>, <<"cutting">> }

PANIC ==
    { <<"panic", "attack">>, <<"cant", "breathe">>, <<"can't", "breathe">>,
      <<"heart", "racing">>, <<"chest", "tight">>, <<"dizzy">>, <<"hyperventilat">> }

HEALTH_ALERT ==
    { <<"chest", "pain">>, <<"severe", "headache">>, <<"fainting">>,
      <<"passed", "out">>, <<"stroke">>, <<"seizure">> }

INTENT_PATTERNS ==
    [ anxiety_worry |->
        { <<"anxious">>, <<"anxiety">>, <<"worry">>, <<"worried">>, <<"panic">>,
          <<"nervous">>, <<"overthink">> },
      low_mood_depression |->
        { <<"depressed">>, <<"worthless">>, <<"useless">>, <<"empty">>, <<"numb">>,
          <<"hopeless">> },
      stress_overwhelm |->
        { <<"stress">>, <<"stressed">>, <<"overwhelmed">>, <<"burnout">>,
          <<"burnedout">>, <<"burn", "out">>, <<"burned", "out">>,
          <<"burn", WS, "out">>, <<"burned", WS, "out">>, <<"too", "much">>,
          <<"exhausted">> },
      loneliness_isolation |->
        { <<"lonely">>, <<"alone">>, <<"isolated">>, <<"no", "one", "cares">> },
      relationship_conflict |->
        { <<"boyfriend">>, <<"girlfriend">>, <<"partner">>, <<"spouse">>,
          <<"breakup">>, <<"argue">>, <<"argument">>, <<"fight">> },
      work_school_performance |->
        { <<"manager">>, <<"boss">>, <<"work">>, <<"salary">>, <<"deadline">>,
          <<"job">>, <<"exam">>, <<"quiz">>, <<"assignment">>, <<"grade">>,
          <<"professor">>, <<"class">> },
      financial_stress |->
        { <<"rent">>, <<"bill">>, <<"bills">>, <<"loan">>, <<"debt">>,
          <<"tuition">>, <<"money">> },
      sleep_issue |->
        { <<"sleep">>, <<"insomnia">>, <<"cant", "sleep">>, <<"can't", "sleep">>,
          <<"nightmare">>, <<"wake", "up">>, <<"tired">> },
      boredom_motivation |->
        { <<"bored">>, <<"no", "motivation">>, <<"cant", "start">>,
          <<"can't", "start">>, <<"stuck">> },
      planning_productivity |->
        { <<"plan">>, <<"schedule">>, <<"timer">>, <<"focus">>, <<"pomodoro">>,
          <<"study", "plan">> },
      gratitude_reflection |->
        { <<"grateful">>, <<"gratitude">>, <<"appreciate">> },
      small_talk |->
        { <<"hi">>, <<"hello">>, <<"hey">>, <<"how", "are", "you">>,
          <<"whats", "up">>, <<"what's", "up">> } ]

\* the keys of INTENT_PATTERNS in the order the dict literal lists them
PatternKeys ==
    << "anxiety_worry", "low_mood_depression", "stress_overwhelm",
       "loneliness_isolation", "relationship_conflict", "work_school_performance",
       "financial_stress", "sleep_issue", "boredom_motivation",
       "planning_productivity", "gratitude_reflection", "small_talk" >>

priority ==
    << "anxiety_worry", "low_mood_depression", "stress_overwhelm",
       "loneliness_isolation", "relationship_conflict", "work_school_performance",
       "financial_stress", "sleep_issue", "boredom_motivation",
       "planning_productivity", "gratitude_reflection", "small_talk" >>

EscalationLabels == {"crisis_risk", "panic_attack", "health_concern"}

IntentLabel == EscalationLabels \cup Range(priority)

\* the first n elements of s (s[:n])
Take(s, n) == SubSeq(s, 1, IF Len(s) < n THEN Len(s) ELSE n)

\* topical_intents that keeps the labels in the order the text mentions them
RECURSIVE ScanLabels(_, _)
ScanLabels(t, acc) ==
    IF t = <<>> THEN acc
    ELSE LET New(k) == <<Head(t)>> \in INTENT_PATTERNS[k] /\ k \notin Range(acc)
         IN  ScanLabels(Tail(t), acc \o SelectSeq(priority, New))

topical_intents_text_order(text_l) ==
    LET found == ScanLabels(text_l, <<>>)
    IN  IF Take(found, 2) # <<>> THEN Take(found, 2) ELSE <<"small_talk">>

\* topical_intents without the small_talk default
topical_intents_no_default(text_l) ==
    LET IsFound(k) == Search(INTENT_PATTERNS[k], text_l)
    IN  Take(SelectSeq(priority, IsFound), 2)

\* the topical part of detect_intents: found, found_sorted, the cut to two and
\* the small_talk default
topical_intents(text_l) ==
    LET IsFound(k) == Search(INTENT_PATTERNS[k], text_l)
        found == SelectSeq(PatternKeys, IsFound)
        InFound(i) == i \in Range(found)
        found_sorted == SelectSeq(priority, InFound)
    IN  IF Take(found_sorted, 2) # <<>> THEN Take(found_sorted, 2)
        ELSE <<"small_talk">>

\* detect_intents that tests PANIC before RISK
detect_intents_panic_first(text) ==
    LET text_l == lower(text)
    IN  IF Search(PANIC, text_l) THEN <<"panic_attack">>
        ELSE IF Search(RISK, text_l) THEN <<"crisis_risk">>
        ELSE IF Search(HEALTH_ALERT, text_l) THEN <<"health_concern">>
        ELSE topical_intents(text_l)

\* detect_intents that tests HEALTH_ALERT before PANIC
detect_intents_health_first(text) ==
    LET text_l == lower(text)
    IN  IF Search(RISK, text_l) THEN <<"crisis_risk">>
        ELSE IF Search(HEALTH_ALERT, text_l) THEN <<"health_concern">>
        ELSE IF Search(PANIC, text_l) THEN <<"panic_attack">>
        ELSE topical_intents(text_l)

detect_intents(text) ==
    LET text_l == lower(text)
    IN  IF Search(RISK, text_l) THEN <<"crisis_risk">>
        ELSE IF Search(PANIC, text_l) THEN <<"panic_attack">>
        ELSE IF Search(HEALTH_ALERT, text_l) THEN <<"health_concern">>
        ELSE topical_intents(text_l)


---------------------------------------------------------------------------
(* core/dialog.py: the handlers.  A reply is the sequence of the canned    *)
(* fragments that "\n\n".join puts together, each named by its handler.    *)

h_work_school(text) ==
    IF Search({<<"exam">>, <<"quiz">>, <<"test">>}, text) THEN "h_work_school: exam plan"
    ELSE "h_work_school"

INTENT_HANDLERS(it, text) ==
    CASE it = "crisis_risk"             -> "h_crisis"
      [] it = "panic_attack"            -> "h_panic"
      [] it = "health_concern"          -> "h_health"
      [] it = "anxiety_worry"           -> "h_anxiety"
      [] it = "low_mood_depression"     -> "h_low_mood"
      [] it = "stress_overwhelm"        -> "h_stress"
      [] it = "loneliness_isolation"    -> "h_lonely"
      [] it = "relationship_conflict"   -> "h_relationship"
      [] it = "work_school_performance" -> h_work_school(text)
      [] it = "financial_stress"        -> "h_finance"
      [] it = "sleep_issue"             -> "h_sleep"
      [] it = "boredom_motivation"      -> "h_boredom"
      [] it = "planning_productivity"   -> "h_planning"
      [] it = "gratitude_reflection"    -> "h_gratitude"
      [] it = "small_talk"              -> "h_smalltalk"

\* the labels that have a handler: the keys of INTENT_HANDLERS
HandlerKeys ==
    { "crisis_risk", "panic_attack", "health_concern", "anxiety_worry",
      "low_mood_depression", "stress_overwhelm", "loneliness_isolation",
      "relationship_conflict", "work_school_performance", "financial_stress",
      "sleep_issue", "boredom_motivation", "planning_productivity",
      "gratitude_reflection", "small_talk" }

\* handle_turn with no handler under "small_talk": INTENT_HANDLERS.get gives None
\* and the label is skipped
handle_turn_no_small_talk_handler(user_text) ==
    LET its == detect_intents(user_text)
        handled == SelectSeq(its, LAMBDA it : it # "small_talk")
        msgs == [i \in 1..Len(handled) |-> INTENT_HANDLERS(handled[i], user_text)]
    IN  IF its = <<"crisis_risk">> THEN <<INTENT_HANDLERS("crisis_risk", user_text)>>
        ELSE IF its = <<"panic_attack">> THEN <<INTENT_HANDLERS("panic_attack", user_text)>>
        ELSE IF its = <<"health_concern">> THEN <<INTENT_HANDLERS("health_concern", user_text)>>
        ELSE Take(msgs, 2)

handle_turn(user_text) ==
    LET its == detect_intents(user_text)
        msgs == [i \in 1..Len(its) |-> INTENT_HANDLERS(its[i], user_text)]
    IN  IF its = <<"crisis_risk">> THEN <<INTENT_HANDLERS("crisis_risk", user_text)>>
        ELSE IF its = <<"panic_attack">> THEN <<INTENT_HANDLERS("panic_attack", user_text)>>
        ELSE IF its = <<"health_concern">> THEN <<INTENT_HANDLERS("health_concern", user_text)>>
        ELSE Take(msgs, 2)

---------------------------------------------------------------------------
(* core/tools.py: FocusTimer *)

FocusTimer ==
    [running |-> FALSE, paused |-> FALSE, duration_sec |-> 0, end_time |-> 0,
     remaining_sec |-> 0]

\* int(x) of a float number of seconds x, given in ticks: truncation toward zero
int(x) == IF x >= 0 THEN x \div TicksPerSecond ELSE -((-x) \div TicksPerSecond)

Min(a, b) == IF a <= b THEN a ELSE b

\* start() that forgets self.paused = False
start_keeps_paused(self, minutes, t) ==
    LET d == Max(60, minutes * 60)
    IN  [running |-> TRUE, paused |-> self.paused, duration_sec |-> d,
         end_time |-> t + d * TicksPerSecond, remaining_sec |-> d]

\* start() without the max(60, .) clamp
start_no_clamp(self, minutes, t) ==
    LET d == minutes * 60
    IN  [running |-> TRUE, paused |-> FALSE, duration_sec |-> d,
         end_time |-> t + d * TicksPerSecond, remaining_sec |-> d]

\* minutes is an int at every call site (number_input, _extract_minutes), so
\* int(minutes) is minutes; t is time.time() in ticks, end_time is kept in ticks
start(self, minutes, t) ==
    LET d == Max(60, minutes * 60)
    IN  [running |-> TRUE, paused |-> FALSE, duration_sec |-> d,
         end_time |-> t + d * TicksPerSecond, remaining_sec |-> d]

\* pause() that sets the flag and takes no snapshot of the time left
pause_no_snapshot(self, t) ==
    IF self.running /\ ~self.paused
    THEN [self EXCEPT !.paused = TRUE]
    ELSE self

\* pause() guarded by self.running alone
pause_unguarded(self, t) ==
    IF self.running
    THEN [self EXCEPT !.paused = TRUE,
                      !.remaining_sec = Max(0, int(self.end_time - t))]
    ELSE self

pause(self, t) ==
    IF self.running /\ ~self.paused
    THEN [self EXCEPT !.paused = TRUE,
                      !.remaining_sec = Max(0, int(self.end_time - t))]
    ELSE self

\* resume() that restarts the countdown from duration_sec
resume_from_duration(self, t) ==
    IF self.running /\ self.paused
    THEN [self EXCEPT !.end_time = t + self.duration_sec * TicksPerSecond,
                      !.paused = FALSE]
    ELSE self

resume(self, t) ==
    IF self.running /\ self.paused
    THEN [self EXCEPT !.end_time = t + self.remaining_sec * TicksPerSecond,
                      !.paused = FALSE]
    ELSE self

\* stop() that leaves remaining_sec as it was
stop_keeps_remaining(self) ==
    [running |-> FALSE, paused |-> FALSE, duration_sec |-> 0, end_time |-> 0,
     remaining_sec |-> self.remaining_sec]

stop(self) ==
    [running |-> FALSE, paused |-> FALSE, duration_sec |-> 0, end_time |-> 0,
     remaining_sec |-> 0]

\* what a method that returns nothing returns
None == [kind |-> "None", a |-> 0, b |-> 0]

\* progress_ratio() that reads remaining_sec whether paused or not
progress_ratio_stale(self, t) ==
    IF ~self.running
    THEN [timer |-> self, ret |-> [kind |-> "ratio", a |-> 0, b |-> 1]]
    ELSE LET total == Max(1, self.duration_sec)
             done == total - self.remaining_sec
         IN  [timer |-> self,
              ret |-> [kind |-> "ratio", a |-> Max(0, Min(total, done)), b |-> total]]

\* the float returned is the fraction a / b: max(0.0, min(1.0, done / total)) of
\* the integers done and total is Max(0, Min(total, done)) / total; the method
\* assigns no field
progress_ratio(self, t) ==
    IF ~self.running
    THEN [timer |-> self, ret |-> [kind |-> "ratio", a |-> 0, b |-> 1]]
    ELSE LET total == Max(1, self.duration_sec)
             left == Max(0, int(self.end_time - t))
             done == IF self.paused THEN total - self.remaining_sec ELSE total - left
         IN  [timer |-> self,
              ret |-> [kind |-> "ratio", a |-> Max(0, Min(total, done)), b |-> total]]

\* status_text() that reads remaining_sec instead of the clock while running
status_text_reads_remaining_sec(self, t) ==
    IF ~self.running
    THEN [timer |-> self, ret |-> [kind |-> "Timer is idle.", a |-> 0, b |-> 0]]
    ELSE IF self.paused
    THEN [timer |-> self,
          ret |-> [kind |-> "Paused - mm:ss remaining.",
                   a |-> self.remaining_sec \div 60, b |-> self.remaining_sec % 60]]
    ELSE LET left == self.remaining_sec
         IN  IF left = 0
             THEN [timer |-> stop(self),
                   ret |-> [kind |-> "Time's up! Take a short break.", a |-> 0, b |-> 0]]
             ELSE [timer |-> self,
                   ret |-> [kind |-> "mm:ss remaining.",
                            a |-> left \div 60, b |-> left % 60]]

\* status_text() that reports the completion and does not call self.stop()
status_text_no_stop(self, t) ==
    IF ~self.running
    THEN [timer |-> self, ret |-> [kind |-> "Timer is idle.", a |-> 0, b |-> 0]]
    ELSE IF self.paused
    THEN [timer |-> self,
          ret |-> [kind |-> "Paused - mm:ss remaining.",
                   a |-> self.remaining_sec \div 60, b |-> self.remaining_sec % 60]]
    ELSE LET left == Max(0, int(self.end_time - t))
         IN  IF left = 0
             THEN [timer |-> self,
                   ret |-> [kind |-> "Time's up! Take a short break.", a |-> 0, b |-> 0]]
             ELSE [timer |-> self,
                   ret |-> [kind |-> "mm:ss remaining.",
                            a |-> left \div 60, b |-> left % 60]]

\* the message returned, with m and s = divmod(., 60) as a and b, and the timer
\* as the call leaves it
status_text(self, t) ==
    IF ~self.running
    THEN [timer |-> self, ret |-> [kind |-> "Timer is idle.", a |-> 0, b |-> 0]]
    ELSE IF self.paused
    THEN [timer |-> self,
          ret |-> [kind |-> "Paused - mm:ss remaining.",
                   a |-> self.remaining_sec \div 60, b |-> self.remaining_sec % 60]]
    ELSE LET left == Max(0, int(self.end_time - t))
         IN  IF left = 0
             THEN [timer |-> stop(self),
                   ret |-> [kind |-> "Time's up! Take a short break.", a |-> 0, b |-> 0]]
             ELSE [timer |-> self,
                   ret |-> [kind |-> "mm:ss remaining.",
                            a |-> left \div 60, b |-> left % 60]]

---------------------------------------------------------------------------
(* core/memory.py: the journal table *)

\* Journal(text=text) gets the next id and ts = utcnow(); the row is added
add_journal(jrn, text, t) == Append(jrn, [id |-> Len(jrn) + 1, ts |-> t, text |-> text])

\* the orders in which select(Journal).order_by(Journal.ts.desc()) may return the
\* rows: newest ts first, rows of equal ts in any order (no second sort key)
ts_desc(jrn) ==
    LET n == Len(jrn)
        perms == {f \in [1..n -> 1..n] : \A i, j \in 1..n : i # j => f[i] # f[j]}
    IN  { [i \in 1..n |-> jrn[f[i]]] :
            f \in {g \in perms : \A i \in 1..n - 1 : jrn[g[i]].ts >= jrn[g[i + 1]].ts} }

\* get_journals(limit): the lists the query may return
get_journals(jrn, limit) == { Take(q, limit) : q \in ts_desc(jrn) }

\* datetime.date(): the calendar day of a clock value given in ticks
TicksPerDay == 86400 * TicksPerSecond

date(t) == t \div TicksPerDay

\* datetime.now(): the local clock; now is the clock of time.time() and of
\* datetime.utcnow()
local_now == now + utc_offset

---------------------------------------------------------------------------
(* app.py: the streak of the chat page *)

\* {j.ts.date() for j in rows}
days_with_entry(rs) == {date(rs[i].ts) : i \in 1..Len(rs)}

\* the loop that counts every day with an entry up to today, gaps or not
RECURSIVE streak_loop_no_gap(_, _, _, _)
streak_loop_no_gap(days, cur, n, steps) ==
    IF \E d \in days : d <= cur
    THEN streak_loop_no_gap(days \ {d \in days : d >= cur}, cur - 1,
                            IF cur \in days THEN n + 1 ELSE n, steps + 1)
    ELSE [streak |-> n, steps |-> steps + 1]

\* while cur in days_with_entry: streak += 1; cur -= one day.  steps counts the
\* evaluations of the loop condition
RECURSIVE streak_loop(_, _, _, _)
streak_loop(days, cur, n, steps) ==
    IF cur \in days
    THEN streak_loop(days, cur - 1, n + 1, steps + 1)
    ELSE [streak |-> n, steps |-> steps + 1]

\* rs is get_journals(limit=500), t is datetime.now()
compute_7day_streak_from_journal(rs, t) == streak_loop(days_with_entry(rs), date(t), 0, 0)

---------------------------------------------------------------------------
(* app.py: mood detection and the helpers of the offer state machine *)

MOOD_PATTERNS ==
    [ anxious  |-> { <<"anxious">>, <<"anxiety">>, <<"panic">>, <<"panic", "attack">>,
                     <<"nervous">> },
      sad      |-> { <<"sad">>, <<"down">>, <<"depressed">>, <<"low", "mood">>,
                     <<"hopeless">> },
      stressed |-> { <<"stress">>, <<"stressed">>, <<"overwhelmed">>, <<"burnout">>,
                     <<"burnedout">>, <<"burn", "out">>, <<"burned", "out">>,
                     <<"too", "much">> },
      lonely   |-> { <<"lonely">>, <<"alone">>, <<"isolated">> },
      unwell   |-> { <<"not", "feeling", "well">>, <<"feel", "unwell">>, <<"sick">>,
                     <<"ill">>, <<"not", "ok">>, <<"not", "okay">> } ]

\* the keys of MOOD_PATTERNS in the order the dict literal lists them
MoodKeys == <<"anxious", "sad", "stressed", "lonely", "unwell">>

\* the first label whose pattern matches, "None" when none does
detect_mood(text) ==
    LET Hit(label) == Search(MOOD_PATTERNS[label], text)
        hits == SelectSeq(MoodKeys, Hit)
    IN  IF hits # <<>> THEN Head(hits) ELSE "None"

empathetic_reply(mood, user_text) ==
    CASE mood = "anxious"  -> <<"empathetic_reply: It makes sense to feel anxious.">>
      [] mood = "sad"      -> <<"empathetic_reply: I'm really sorry you're feeling low.">>
      [] mood = "stressed" -> <<"empathetic_reply: That sounds like a lot to carry.">>
      [] mood = "lonely"   -> <<"empathetic_reply: Feeling disconnected can really sting.">>
      [] mood = "unwell"   -> <<"empathetic_reply: Sorry you're not feeling well today.">>
      [] OTHER             -> <<"empathetic_reply: I'm listening.">>

\* the (stripped, lower-cased) alternatives of the affirmation pattern
Affirmations ==
    { <<"sure">>, <<"yes">>, <<"yeah">>, <<"yup">>, <<"ok">>, <<"okay">>,
      <<"alright">>, <<"please">>, <<"go", "ahead">> }

\* re.fullmatch(r"\s*(sure|...)\.?\s*", t, re.I)
_is_affirmation(t) == strip(lower(t)) \in Affirmations

\* the digit tokens of the vocabulary and int() of them
NumberTokens == {"0", "10", "20"}

NumVal(w) == CASE w = "0" -> 0 [] w = "10" -> 10 [] w = "20" -> 20

\* str(mins) inside the f-string
NumStr(n) == CASE n = 0 -> "0" [] n = 10 -> "10" [] n = 20 -> "20"

Units == {"min", "minute", "minutes", "m"}

\* \s*(min|minute|minutes|m)\b at token j
RECURSIVE UnitFollows(_, _)
UnitFollows(t, j) ==
    /\ j <= Len(t)
    /\ IF t[j] = WS THEN UnitFollows(t, j + 1) ELSE LowerTok(t[j]) \in Units

\* re.search(r"(\d+)\s*(min|minute|minutes|m)\b", t, re.I): the leftmost match
_extract_minutes(t, default_min) ==
    LET matches == {i \in 1..Len(t) : t[i] \in NumberTokens /\ UnitFollows(t, i + 1)}
        first == CHOOSE i \in matches : \A k \in matches : i <= k
    IN  IF matches # {} THEN NumVal(t[first]) ELSE default_min

\* the tokens of the vocabulary that contain the keyword as a substring
Containing ==
    [ timer |-> {"timer"}, focus |-> {"focus"}, journal |-> {"journal"},
      note |-> {"note", "notes"} ]

\* keyword in txt
KeywordIn(key, txt) == \E i \in 1..Len(txt) : txt[i] \in Containing[key]

---------------------------------------------------------------------------
(* app.py: chat turn processing.  Each branch gives the pending_offer, the *)
(* journal and the reply the turn leaves; the timer is not among them      *)
(* because no branch calls it.                                             *)

\* the await_journal_text branch that saves the turn's text without strip()
await_journal_text_branch_no_strip(jrn, p, t) ==
    IF p # <<>>
    THEN [pending_offer |-> "none", journal |-> add_journal(jrn, p, t),
          reply |-> <<"Added to your journal. Want a weekly summary?">>]
    ELSE [pending_offer |-> "await_journal_text", journal |-> jrn,
          reply |-> <<"Tell me the note to add and I'll save it.">>]

\* 1) Awaiting journal text: save it
await_journal_text_branch(jrn, p, t) ==
    LET note == strip(p)
    IN  IF note # <<>>
        THEN [pending_offer |-> "none", journal |-> add_journal(jrn, note, t),
              reply |-> <<"Added to your journal. Want a weekly summary?">>]
        ELSE [pending_offer |-> "await_journal_text", journal |-> jrn,
              reply |-> <<"Tell me the note to add and I'll save it.">>]

\* 3) Normal: empathy first, then set offer; otherwise route
normal_branch_no_offer(offer, jrn, p, t) ==
    LET mood == detect_mood(p)
    IN  IF mood # "None"
        THEN [pending_offer |-> offer, journal |-> jrn,
              reply |-> empathetic_reply(mood, p)]
        ELSE [pending_offer |-> offer, journal |-> jrn, reply |-> handle_turn(p)]

normal_branch(offer, jrn, p, t) ==
    LET mood == detect_mood(p)
    IN  IF mood # "None"
        THEN [pending_offer |-> "timer_or_journal", journal |-> jrn,
              reply |-> empathetic_reply(mood, p)]
        ELSE [pending_offer |-> offer, journal |-> jrn, reply |-> handle_turn(p)]

\* the timer_or_journal branch with an affirmation taken as the end of the offer
timer_or_journal_branch_affirmation_clears(jrn, p, t) ==
    LET txt == strip(lower(p))
        mins == _extract_minutes(p, 10)
    IN  IF KeywordIn("timer", txt) \/ KeywordIn("focus", txt)
        THEN [pending_offer |-> "none", journal |-> jrn,
              reply |-> handle_turn(<<"start", "a", NumStr(mins), "minute", "focus",
                                      "timer">>)]
        ELSE IF KeywordIn("journal", txt) \/ KeywordIn("note", txt)
        THEN [pending_offer |-> "await_journal_text", journal |-> jrn,
              reply |-> <<"Okay-what should I add to your journal?">>]
        ELSE IF _is_affirmation(p)
        THEN [pending_offer |-> "none", journal |-> jrn,
              reply |-> <<"Great-should I start a focus timer or add a journal note?">>]
        ELSE [pending_offer |-> "none", journal |-> jrn, reply |-> handle_turn(p)]

\* the timer_or_journal branch whose last case re-enters the normal branch
timer_or_journal_branch_falls_to_normal(jrn, p, t) ==
    LET txt == strip(lower(p))
        mins == _extract_minutes(p, 10)
    IN  IF KeywordIn("timer", txt) \/ KeywordIn("focus", txt)
        THEN [pending_offer |-> "none", journal |-> jrn,
              reply |-> handle_turn(<<"start", "a", NumStr(mins), "minute", "focus",
                                      "timer">>)]
        ELSE IF KeywordIn("journal", txt) \/ KeywordIn("note", txt)
        THEN [pending_offer |-> "await_journal_text", journal |-> jrn,
              reply |-> <<"Okay-what should I add to your journal?">>]
        ELSE IF _is_affirmation(p)
        THEN [pending_offer |-> "timer_or_journal", journal |-> jrn,
              reply |-> <<"Great-should I start a focus timer or add a journal note?">>]
        ELSE normal_branch("none", jrn, p, t)

\* the branch that looks for the journal/note keyword before the timer/focus one
timer_or_journal_branch_journal_first(jrn, p, t) ==
    LET txt == strip(lower(p))
        mins == _extract_minutes(p, 10)
    IN  IF KeywordIn("journal", txt) \/ KeywordIn("note", txt)
        THEN [pending_offer |-> "await_journal_text", journal |-> jrn,
              reply |-> <<"Okay-what should I add to your journal?">>]
        ELSE IF KeywordIn("timer", txt) \/ KeywordIn("focus", txt)
        THEN [pending_offer |-> "none", journal |-> jrn,
              reply |-> handle_turn(<<"start", "a", NumStr(mins), "minute", "focus",
                                      "timer">>)]
        ELSE IF _is_affirmation(p)
        THEN [pending_offer |-> "timer_or_journal", journal |-> jrn,
              reply |-> <<"Great-should I start a focus timer or add a journal note?">>]
        ELSE [pending_offer |-> "none", journal |-> jrn, reply |-> handle_turn(p)]

\* 2) Offered timer/journal: interpret choice or ask clarify
timer_or_journal_branch(jrn, p, t) ==
    LET txt == strip(lower(p))
        mins == _extract_minutes(p, 10)
    IN  IF KeywordIn("timer", txt) \/ KeywordIn("focus", txt)
        THEN [pending_offer |-> "none", journal |-> jrn,
              reply |-> handle_turn(<<"start", "a", NumStr(mins), "minute", "focus",
                                      "timer">>)]
        ELSE IF KeywordIn("journal", txt) \/ KeywordIn("note", txt)
        THEN [pending_offer |-> "await_journal_text", journal |-> jrn,
              reply |-> <<"Okay-what should I add to your journal?">>]
        ELSE IF _is_affirmation(p)
        THEN [pending_offer |-> "timer_or_journal", journal |-> jrn,
              reply |-> <<"Great-should I start a focus timer or add a journal note?">>]
        ELSE [pending_offer |-> "none", journal |-> jrn, reply |-> handle_turn(p)]

\* chat turn processing that does not save a note the journal already ends with
chat_turn_skips_saved_note(offer, jrn, p, t) ==
    IF /\ offer = "await_journal_text"
       /\ jrn # <<>>
       /\ jrn[Len(jrn)].text = strip(p)
    THEN [pending_offer |-> "none", journal |-> jrn,
          reply |-> <<"Added to your journal. Want a weekly summary?">>]
    ELSE IF offer = "await_journal_text" THEN await_journal_text_branch(jrn, p, t)
    ELSE IF offer = "timer_or_journal" THEN timer_or_journal_branch(jrn, p, t)
    ELSE normal_branch(offer, jrn, p, t)

chat_turn(offer, jrn, p, t) ==
    IF offer = "await_journal_text" THEN await_journal_text_branch(jrn, p, t)
    ELSE IF offer = "timer_or_journal" THEN timer_or_journal_branch(jrn, p, t)
    ELSE normal_branch(offer, jrn, p, t)

---------------------------------------------------------------------------
(* The inputs *)

\* the words detect_intents is given: every escalation pattern, five topical
\* labels, a two-word phrase ("panic attack") whose first word is a topical term
\* of its own, a capitalised word and a word no pattern knows
Vocab ==
    { "suicide", "Suicide", "dizzy", "stroke", "panic", "attack", "anxious",
      "hopeless", "stressed", "work", "hi", "banana" }

Texts == UNION {[1..n -> Vocab] : n \in 0..MaxLen}

\* the turns typed into the chat input
ChatTexts ==
    { <<"I", "feel", "anxious">>, <<"worried">>, <<"hopeless", "suicide">>,
      <<"suicide">>, <<"timer">>, <<"focus", "20", "min">>, <<"20", "min">>,
      <<"journal">>, <<"ok">>, <<WS, "OK", WS>>, <<WS>>, <<WS, "hello", WS>>,
      <<"timer", "0", "min", "note">> }

\* timer.start(int(mins)) of the timer page
TimerPageMinutes == {25}

\* st.number_input("Minutes", min_value=1, max_value=120, ...)
TimerPageMax == 120

---------------------------------------------------------------------------
(* The state machine *)

\* progress_ratio() not yet read since the last start() or stop(): 0 / 1
NoRatio == [a |-> 0, b |-> 1]

\* the ghost records before any start() and any pause()
NeverStarted ==
    [minutes |-> 0, at |-> 0, clean |-> FALSE, completions |-> 0, ratio |-> NoRatio]

NeverPaused == [at |-> -1, left |-> 0]

\* a browser session before its first chat turn: no pending_offer, no transcript
NoSession == [pending_offer |-> "none", history |-> <<>>]

\* before the streak is computed
NoStreak == [streak |-> 0, steps |-> 0]

Snapshot ==
    [pending_offer |-> pending_offer, timer |-> timer, journal |-> journal,
     history |-> history, peer |-> peer]

Init ==
    /\ pending_offer = "none"
    /\ timer = FocusTimer
    /\ journal = <<>>
    /\ history = <<>>
    /\ now = 0
    /\ prompt = <<>>
    /\ reply = <<>>
    /\ intents = <<>>
    /\ op = "init"
    /\ pre = [pending_offer |-> "none", timer |-> FocusTimer, journal |-> <<>>,
              history |-> <<>>, peer |-> NoSession]
    /\ ret = None
    /\ started = NeverStarted
    /\ paused_at = NeverPaused
    /\ ticks = 0
    /\ section = "Chat"
    /\ user = "u"
    /\ peer = NoSession
    /\ actor = 0
    /\ rows = <<>>
    /\ streak = NoStreak
    /\ calls = <<>>
    /\ utc_offset = 0

\* if prompt: ... the three branches, then the transcript is persisted
ChatTurn(p) ==
    /\ p # <<>>
    /\ Len(history) + 2 <= 2 * MaxTurns
    /\ LET r == chat_turn(pending_offer, journal, p, now)
       IN  /\ pending_offer' = r.pending_offer
           /\ journal' = r.journal
           /\ reply' = r.reply
           /\ history' = history \o << <<"user", p>>, <<"assistant", r.reply>> >>
    /\ prompt' = p
    /\ op' = "chat"
    /\ pre' = Snapshot
    /\ UNCHANGED <<timer, now, intents>>
    /\ UNCHANGED <<tvars, page_vars, read_vars, utc_offset, calls>>

\* the journal page's "Summarize my week": a direct call of handle_turn
SummarizeWeek ==
    /\ Len(history) + 2 <= 2 * MaxTurns
    /\ LET text == <<"summarize", "my", "week">>
           resp == handle_turn(text)
       IN  /\ history' = history \o << <<"user", text>>, <<"assistant", resp>> >>
           /\ prompt' = text
           /\ reply' = resp
    /\ op' = "summarize_week"
    /\ pre' = Snapshot
    /\ UNCHANGED <<pending_offer, timer, journal, now, intents>>
    /\ UNCHANGED <<tvars, page_vars, read_vars, utc_offset, calls>>

\* the timer page's Start button
TimerStart(mins) ==
    /\ timer' = start(timer, mins, now)
    /\ op' = "timer_start"
    /\ pre' = Snapshot
    /\ UNCHANGED <<pending_offer, journal, history, now, prompt, reply, intents>>
    /\ UNCHANGED <<tvars, page_vars, read_vars, utc_offset, calls>>

\* the timer page's Stop button
TimerStop ==
    /\ timer' = stop(timer)
    /\ op' = "timer_stop"
    /\ pre' = Snapshot
    /\ UNCHANGED <<pending_offer, journal, history, now, prompt, reply, intents>>
    /\ UNCHANGED <<tvars, page_vars, read_vars, utc_offset, calls>>

Next ==
    \/ \E p \in ChatTexts : ChatTurn(p)
    \/ SummarizeWeek
    \/ \E mins \in TimerPageMinutes : TimerStart(mins)
    \/ TimerStop

Spec == Init /\ [][Next]_vars

---------------------------------------------------------------------------
(* core/tools.py: the FocusTimer methods called in any order as the clock runs *)

\* the minutes values start() is called with
StartMinutes == {-1, 0, 1, 2}

\* the steps of the clock, in ticks: one tick, one minute
AdvanceSteps == {1, 60 * TicksPerSecond}

\* the session state the timer methods do not touch
chat_vars == <<pending_offer, journal, history, prompt, reply, intents,
               page_vars, read_vars, utc_offset, calls>>

Start(m) ==
    /\ timer' = start(timer, m, now)
    /\ ret' = None
    /\ started' = [minutes |-> m, at |-> now, clean |-> TRUE, completions |-> 0,
                   ratio |-> NoRatio]
    /\ paused_at' = NeverPaused
    /\ op' = "start"
    /\ pre' = Snapshot
    /\ UNCHANGED <<chat_vars, now, ticks>>

Pause ==
    /\ timer' = pause(timer, now)
    /\ ret' = None
    /\ started' = [started EXCEPT !.clean = FALSE]
    /\ paused_at' = IF timer.running /\ ~timer.paused
                    THEN [at |-> now, left |-> timer.end_time - now]
                    ELSE paused_at
    /\ op' = "pause"
    /\ pre' = Snapshot
    /\ UNCHANGED <<chat_vars, now, ticks>>

Resume ==
    /\ timer' = resume(timer, now)
    /\ ret' = None
    /\ started' = [started EXCEPT !.clean = FALSE]
    /\ op' = "resume"
    /\ pre' = Snapshot
    /\ UNCHANGED <<chat_vars, now, ticks, paused_at>>

Stop ==
    /\ timer' = stop(timer)
    /\ ret' = None
    /\ started' = [started EXCEPT !.clean = FALSE, !.ratio = NoRatio]
    /\ op' = "stop"
    /\ pre' = Snapshot
    /\ UNCHANGED <<chat_vars, now, ticks, paused_at>>

StatusText ==
    /\ LET r == status_text(timer, now)
       IN  /\ timer' = r.timer
           /\ ret' = r.ret
           /\ started' = IF r.ret.kind = "Time's up! Take a short break."
                         THEN [started EXCEPT !.completions = @ + 1, !.ratio = NoRatio]
                         ELSE started
    /\ op' = "status_text"
    /\ pre' = Snapshot
    /\ UNCHANGED <<chat_vars, now, ticks, paused_at>>

ProgressRatio ==
    /\ LET r == progress_ratio(timer, now)
       IN  /\ timer' = r.timer
           /\ ret' = r.ret
           /\ started' = IF timer.running
                         THEN [started EXCEPT !.ratio = [a |-> r.ret.a, b |-> r.ret.b]]
                         ELSE started
    /\ op' = "progress_ratio"
    /\ pre' = Snapshot
    /\ UNCHANGED <<chat_vars, now, ticks, paused_at>>

\* time passes between two calls
Advance(d) ==
    /\ ticks < MaxAdvances
    /\ now' = now + d
    /\ ticks' = ticks + 1
    /\ ret' = None
    /\ op' = "advance"
    /\ pre' = Snapshot
    /\ UNCHANGED <<chat_vars, timer, started, paused_at>>

NextTimer ==
    \/ \E m \in StartMinutes : Start(m)
    \/ Pause
    \/ Resume
    \/ Stop
    \/ StatusText
    \/ ProgressRatio
    \/ \E d \in AdvanceSteps : Advance(d)

SpecTimer == Init /\ [][NextTimer]_vars

---------------------------------------------------------------------------
(* Two browser sessions of one server process.  st.session_state is kept per *)
(* session; core.tools.timer and the journal table are objects of the        *)
(* process.  Session 1 holds pending_offer and history, session 2 holds peer. *)

Sessions == {1, 2}

\* the turns the two sessions type
SessionTexts == { <<"I", "feel", "anxious">>, <<"journal">> }

\* st.session_state as the script run of session s finds it
session_state(s) ==
    IF s = 1 THEN [pending_offer |-> pending_offer, history |-> history] ELSE peer

\* the timer the script run of session s reads: from core.tools import timer
ObservedTimer(s) == timer

\* the Timer page after st.rerun(): status_text() is called when the timer is
\* running and not paused
timer_page(self, t) ==
    IF self.running /\ ~self.paused THEN status_text(self, t).timer ELSE self

SessionChatTurn(s, p) ==
    /\ p # <<>>
    /\ Len(history) + Len(peer.history) + 2 <= 2 * MaxTurns
    /\ LET ss == session_state(s)
           r == chat_turn(ss.pending_offer, journal, p, now)
           h == ss.history \o << <<"user", p>>, <<"assistant", r.reply>> >>
       IN  /\ journal' = r.journal
           /\ reply' = r.reply
           /\ IF s = 1
              THEN /\ pending_offer' = r.pending_offer
                   /\ history' = h
                   /\ peer' = peer
              ELSE /\ peer' = [pending_offer |-> r.pending_offer, history |-> h]
                   /\ UNCHANGED <<pending_offer, history>>
    /\ prompt' = p
    /\ op' = "chat"
    /\ actor' = s
    /\ pre' = Snapshot
    /\ UNCHANGED <<timer, now, intents, tvars, section, user, read_vars, utc_offset, calls>>

\* what a Timer page button of session s leaves unchanged
timer_page_frame ==
    <<pending_offer, journal, history, now, prompt, reply, intents, tvars, section,
      user, peer, read_vars, utc_offset, calls>>

SessionStart(s, mins) ==
    /\ timer' = timer_page(start(ObservedTimer(s), mins, now), now)
    /\ op' = "start"
    /\ actor' = s
    /\ pre' = Snapshot
    /\ UNCHANGED timer_page_frame

\* the Pause button is shown while the timer is running and not paused
SessionPause(s) ==
    /\ ObservedTimer(s).running /\ ~ObservedTimer(s).paused
    /\ timer' = timer_page(pause(ObservedTimer(s), now), now)
    /\ op' = "pause"
    /\ actor' = s
    /\ pre' = Snapshot
    /\ UNCHANGED timer_page_frame

\* the Resume button is shown while the timer is running and paused
SessionResume(s) ==
    /\ ObservedTimer(s).running /\ ObservedTimer(s).paused
    /\ timer' = timer_page(resume(ObservedTimer(s), now), now)
    /\ op' = "resume"
    /\ actor' = s
    /\ pre' = Snapshot
    /\ UNCHANGED timer_page_frame

SessionStop(s) ==
    /\ timer' = timer_page(stop(ObservedTimer(s)), now)
    /\ op' = "stop"
    /\ actor' = s
    /\ pre' = Snapshot
    /\ UNCHANGED timer_page_frame

\* session s opens the Timer page while the timer is running and not paused
SessionStatusText(s) ==
    /\ ObservedTimer(s).running /\ ~ObservedTimer(s).paused
    /\ timer' = timer_page(ObservedTimer(s), now)
    /\ op' = "status_text"
    /\ actor' = s
    /\ pre' = Snapshot
    /\ UNCHANGED timer_page_frame

NextSessions ==
    \E s \in Sessions :
        \/ \E p \in SessionTexts : SessionChatTurn(s, p)
        \/ \E mins \in TimerPageMinutes : SessionStart(s, mins)
        \/ SessionPause(s)
        \/ SessionResume(s)
        \/ SessionStop(s)
        \/ SessionStatusText(s)

SpecSessions == Init /\ [][NextSessions]_vars

---------------------------------------------------------------------------
(* core/tools.py: FocusTimer methods called by two threads on the one timer. *)
(* No method takes a lock, so the threads interleave between the single      *)
(* reads and writes of the fields.  A call is [method, minutes, pc, tmp]: pc  *)
(* the next field access of the method, 0 when it has returned, tmp the       *)
(* value read from a field and not yet used.                                  *)

Threads == {1, 2}

Methods == {"start", "pause", "resume", "stop"}

Call(method, minutes) == [method |-> method, minutes |-> minutes, pc |-> 1, tmp |-> 0]

\* start(): the assignments of lines 16-20, a field read before each use
start_step(self, c, t) ==
    CASE c.pc = 1 -> [timer |-> [self EXCEPT !.duration_sec = Max(60, c.minutes * 60)],
                      call |-> [c EXCEPT !.pc = 2]]
      [] c.pc = 2 -> [timer |-> self, call |-> [c EXCEPT !.pc = 3, !.tmp = self.duration_sec]]
      [] c.pc = 3 -> [timer |-> [self EXCEPT !.end_time = t + c.tmp * TicksPerSecond],
                      call |-> [c EXCEPT !.pc = 4]]
      [] c.pc = 4 -> [timer |-> [self EXCEPT !.running = TRUE], call |-> [c EXCEPT !.pc = 5]]
      [] c.pc = 5 -> [timer |-> [self EXCEPT !.paused = FALSE], call |-> [c EXCEPT !.pc = 6]]
      [] c.pc = 6 -> [timer |-> self, call |-> [c EXCEPT !.pc = 7, !.tmp = self.duration_sec]]
      [] c.pc = 7 -> [timer |-> [self EXCEPT !.remaining_sec = c.tmp],
                      call |-> [c EXCEPT !.pc = 0]]

\* pause(): self.running read, self.paused read, then lines 24-25
pause_step(self, c, t) ==
    CASE c.pc = 1 -> [timer |-> self,
                      call |-> [c EXCEPT !.pc = IF self.running THEN 2 ELSE 0]]
      [] c.pc = 2 -> [timer |-> self,
                      call |-> [c EXCEPT !.pc = IF ~self.paused THEN 3 ELSE 0]]
      [] c.pc = 3 -> [timer |-> [self EXCEPT !.paused = TRUE], call |-> [c EXCEPT !.pc = 4]]
      [] c.pc = 4 -> [timer |-> self, call |-> [c EXCEPT !.pc = 5, !.tmp = self.end_time]]
      [] c.pc = 5 -> [timer |-> [self EXCEPT !.remaining_sec = Max(0, int(c.tmp - t))],
                      call |-> [c EXCEPT !.pc = 0]]

\* resume(): self.running read, self.paused read, then lines 29-30
resume_step(self, c, t) ==
    CASE c.pc = 1 -> [timer |-> self,
                      call |-> [c EXCEPT !.pc = IF self.running THEN 2 ELSE 0]]
      [] c.pc = 2 -> [timer |-> self,
                      call |-> [c EXCEPT !.pc = IF self.paused THEN 3 ELSE 0]]
      [] c.pc = 3 -> [timer |-> self, call |-> [c EXCEPT !.pc = 4, !.tmp = self.remaining_sec]]
      [] c.pc = 4 -> [timer |-> [self EXCEPT !.end_time = t + c.tmp * TicksPerSecond],
                      call |-> [c EXCEPT !.pc = 5]]
      [] c.pc = 5 -> [timer |-> [self EXCEPT !.paused = FALSE], call |-> [c EXCEPT !.pc = 0]]

\* stop(): the five assignments of lines 33-37
stop_step(self, c, t) ==
    CASE c.pc = 1 -> [timer |-> [self EXCEPT !.running = FALSE], call |-> [c EXCEPT !.pc = 2]]
      [] c.pc = 2 -> [timer |-> [self EXCEPT !.paused = FALSE], call |-> [c EXCEPT !.pc = 3]]
      [] c.pc = 3 -> [timer |-> [self EXCEPT !.duration_sec = 0], call |-> [c EXCEPT !.pc = 4]]
      [] c.pc = 4 -> [timer |-> [self EXCEPT !.end_time = 0], call |-> [c EXCEPT !.pc = 5]]
      [] c.pc = 5 -> [timer |-> [self EXCEPT !.remaining_sec = 0],
                      call |-> [c EXCEPT !.pc = 0]]

method_step(self, c, t) ==
    CASE c.method = "start"  -> start_step(self, c, t)
      [] c.method = "pause"  -> pause_step(self, c, t)
      [] c.method = "resume" -> resume_step(self, c, t)
      [] c.method = "stop"   -> stop_step(self, c, t)

\* the whole method, as one thread alone runs it
method_call(self, c, t) ==
    CASE c.method = "start"  -> start(self, c.minutes, t)
      [] c.method = "pause"  -> pause(self, t)
      [] c.method = "resume" -> resume(self, t)
      [] c.method = "stop"   -> stop(self)

\* before the threads call: one thread starts, pauses, lets time pass
SetUpStart == calls = <<>> /\ \E mins \in TimerPageMinutes : Start(mins)

SetUpPause == calls = <<>> /\ Pause

SetUpAdvance == calls = <<>> /\ ticks < 1 /\ \E d \in AdvanceSteps : Advance(d)

\* what the steps of the two calls leave unchanged
race_frame ==
    <<pending_offer, journal, history, now, prompt, reply, intents, tvars, page_vars,
      read_vars, utc_offset>>

\* the two threads enter their methods
Invoke(m1, m2) ==
    /\ calls = <<>>
    /\ utc_offset = 0
    /\ calls' = << Call(m1, 25), Call(m2, 25) >>
    /\ op' = "invoke"
    /\ pre' = Snapshot
    /\ UNCHANGED <<timer, race_frame>>

\* thread i performs the next field access of its method
Step(i) ==
    /\ calls # <<>>
    /\ calls[i].pc # 0
    /\ LET r == method_step(timer, calls[i], now)
       IN  /\ timer' = r.timer
           /\ calls' = [calls EXCEPT ![i] = r.call]
    /\ op' = "step"
    /\ UNCHANGED <<pre, race_frame>>

NextRace ==
    \/ SetUpStart
    \/ SetUpPause
    \/ SetUpAdvance
    \/ \E m1, m2 \in Methods : Invoke(m1, m2)
    \/ \E i \in Threads : Step(i)

SpecRace == Init /\ [][NextRace]_vars

---------------------------------------------------------------------------
(* compute_7day_streak_from_journal on every journal of up to MaxEntries rows *)
(* and every value of today in 0..MaxDay                                     *)

\* the clock values of day d: its first and its last tick
DayTicks == UNION { {d * TicksPerDay, (d + 1) * TicksPerDay - 1} : d \in 0..MaxDay }

\* journal tables: ids in order of insertion, ts from a clock that did not go back
StreakJournals ==
    UNION { { [i \in 1..n |-> [id |-> i, ts |-> f[i], text |-> <<"note">>]] :
                f \in {g \in [1..n -> DayTicks] : \A i \in 1..n - 1 : g[i] <= g[i + 1]} } :
            n \in 0..MaxEntries }

InitStreak ==
    /\ pending_offer = "none"
    /\ timer = FocusTimer
    /\ journal \in StreakJournals
    /\ history = <<>>
    /\ now \in DayTicks
    /\ prompt = <<>>
    /\ reply = <<>>
    /\ intents = <<>>
    /\ op = "input"
    /\ pre = [pending_offer |-> "none", timer |-> FocusTimer, journal |-> journal,
              history |-> <<>>, peer |-> NoSession]
    /\ ret = None
    /\ started = NeverStarted
    /\ paused_at = NeverPaused
    /\ ticks = 0
    /\ section = "Chat"
    /\ user = "u"
    /\ peer = NoSession
    /\ actor = 0
    /\ rows = <<>>
    /\ streak = NoStreak
    /\ calls = <<>>
    /\ utc_offset = 0

\* the chat page is drawn: streak = compute_7day_streak_from_journal()
ComputeStreak ==
    /\ op = "input"
    /\ \E rs \in get_journals(journal, 500) :
          /\ rows' = rs
          /\ streak' = compute_7day_streak_from_journal(rs, local_now)
    /\ op' = "streak"
    /\ UNCHANGED <<pending_offer, timer, journal, history, now, prompt, reply, intents, pre,
                   tvars, page_vars, calls, utc_offset>>

NextStreak == ComputeStreak

SpecStreak == InitStreak /\ [][NextStreak]_vars

---------------------------------------------------------------------------
(* The journal table: rows added from the Journal page as the clock runs, and *)
(* read back by get_journals                                                  *)

\* what is typed into the "Add a quick note" text area
JournalTexts == { <<"note">>, <<WS, "Win", WS>>, <<WS>> }

\* the limits get_journals is called with: the least one, that of "Recent entries"
Limits == {1, 10}

\* "Add to Journal": _save_journal
SaveJournal(text) ==
    /\ Len(journal) < MaxEntries
    /\ journal' = IF strip(text) # <<>> THEN add_journal(journal, strip(text), now)
                  ELSE journal
    /\ prompt' = text
    /\ op' = "save_journal"
    /\ pre' = Snapshot
    /\ UNCHANGED <<pending_offer, timer, history, now, reply, intents, tvars, page_vars,
                   read_vars, utc_offset, calls>>

GetJournals(limit) ==
    /\ rows' \in get_journals(journal, limit)
    /\ op' = "get_journals"
    /\ pre' = Snapshot
    /\ UNCHANGED <<pending_offer, timer, journal, history, now, prompt, reply, intents,
                   tvars, page_vars, streak, calls, utc_offset>>

NextJournal ==
    \/ \E text \in JournalTexts : SaveJournal(text)
    \/ \E limit \in Limits : GetJournals(limit)
    \/ \E d \in AdvanceSteps : Advance(d)

SpecJournal == Init /\ [][NextJournal]_vars

---------------------------------------------------------------------------
(* One session moving between the Chat, Timer and Journal pages, logging out *)
(* and in again, while the clock runs                                        *)

Sections == {"Chat", "Timer", "Journal"}

\* the turns typed on the Chat page
PageTexts == { <<"I", "feel", "anxious">>, <<"note">> }

\* the note saved on the Journal page
PageNotes == { <<"note">> }

\* the radio of the sidebar; the Timer page calls status_text() when it is drawn
Navigate(sec) ==
    /\ user # "None"
    /\ sec # section
    /\ section' = sec
    /\ timer' = IF sec = "Timer" THEN timer_page(timer, now) ELSE timer
    /\ op' = "navigate"
    /\ pre' = Snapshot
    /\ UNCHANGED <<pending_offer, journal, history, now, prompt, reply, intents, tvars,
                   user, peer, actor, read_vars, utc_offset, calls>>

\* a "Log out" that pops pending_offer as well
Logout_pops_pending_offer ==
    /\ user # "None"
    /\ user' = "None"
    /\ history' = <<>>
    /\ pending_offer' = "none"
    /\ op' = "logout"
    /\ pre' = Snapshot
    /\ UNCHANGED <<timer, journal, now, prompt, reply, intents, tvars, section, peer,
                   actor, read_vars, utc_offset, calls>>

\* "Log out": the keys user and history are popped, nothing else
Logout ==
    /\ user # "None"
    /\ user' = "None"
    /\ history' = <<>>
    /\ op' = "logout"
    /\ pre' = Snapshot
    /\ UNCHANGED <<pending_offer, timer, journal, now, prompt, reply, intents, tvars,
                   section, peer, actor, read_vars, utc_offset, calls>>

\* "Sign in" of the auth gate, in the same browser session
Login ==
    /\ user = "None"
    /\ user' = "u"
    /\ timer' = IF section = "Timer" THEN timer_page(timer, now) ELSE timer
    /\ op' = "login"
    /\ pre' = Snapshot
    /\ UNCHANGED <<pending_offer, journal, history, now, prompt, reply, intents, tvars,
                   section, peer, actor, read_vars, utc_offset, calls>>

PageChatTurn(p) ==
    /\ user # "None" /\ section = "Chat"
    /\ Len(journal) < MaxEntries - 1
    /\ ChatTurn(p)

\* what a button of the Timer page leaves unchanged
page_timer_frame ==
    <<pending_offer, journal, history, now, prompt, reply, intents, tvars, page_vars,
      read_vars, utc_offset, calls>>

PageStart(mins) ==
    /\ user # "None" /\ section = "Timer"
    /\ timer' = timer_page(start(timer, mins, now), now)
    /\ op' = "timer_start"
    /\ pre' = Snapshot
    /\ UNCHANGED page_timer_frame

PagePause ==
    /\ user # "None" /\ section = "Timer"
    /\ timer.running /\ ~timer.paused
    /\ timer' = timer_page(pause(timer, now), now)
    /\ op' = "timer_pause"
    /\ pre' = Snapshot
    /\ UNCHANGED page_timer_frame

PageResume ==
    /\ user # "None" /\ section = "Timer"
    /\ timer.running /\ timer.paused
    /\ timer' = timer_page(resume(timer, now), now)
    /\ op' = "timer_resume"
    /\ pre' = Snapshot
    /\ UNCHANGED page_timer_frame

PageStop ==
    /\ user # "None" /\ section = "Timer"
    /\ timer' = timer_page(stop(timer), now)
    /\ op' = "timer_stop"
    /\ pre' = Snapshot
    /\ UNCHANGED page_timer_frame

\* the running Timer page redraws itself every second: time.sleep(1); st.rerun()
PageTick ==
    /\ user # "None" /\ section = "Timer"
    /\ timer.running /\ ~timer.paused
    /\ ticks < 1
    /\ now' = now + TicksPerSecond
    /\ ticks' = ticks + 1
    /\ timer' = timer_page(timer, now')
    /\ op' = "timer_tick"
    /\ pre' = Snapshot
    /\ UNCHANGED <<pending_offer, journal, history, prompt, reply, intents, ret, started,
                   paused_at, page_vars, read_vars, utc_offset, calls>>

PageSaveJournal(text) ==
    /\ user # "None" /\ section = "Journal"
    /\ Len(journal) < MaxEntries - 1
    /\ SaveJournal(text)

PageSummarizeWeek ==
    /\ user # "None" /\ section = "Journal"
    /\ SummarizeWeek

NextPages ==
    \/ \E sec \in Sections : Navigate(sec)
    \/ Logout
    \/ Login
    \/ \E p \in PageTexts : PageChatTurn(p)
    \/ \E mins \in TimerPageMinutes : PageStart(mins)
    \/ PagePause
    \/ PageResume
    \/ PageStop
    \/ PageTick
    \/ \E text \in PageNotes : PageSaveJournal(text)
    \/ PageSummarizeWeek

SpecPages == Init /\ [][NextPages]_vars

---------------------------------------------------------------------------
(* The chat page of a server whose local time zone is not UTC: entries are  *)
(* stamped by datetime.utcnow(), "today" is datetime.now().date()           *)

\* the UTC offsets of the local time zone, in hours
UtcOffsetHours == {-5, 0, 10}

HourTicks == 3600 * TicksPerSecond

\* the steps of the clock, in ticks: one tick, six hours
ClockSteps == {1, 6 * HourTicks}

\* the session starts at 00:00 UTC of day 1
InitClocks ==
    /\ pending_offer = "none"
    /\ timer = FocusTimer
    /\ journal = <<>>
    /\ history = <<>>
    /\ now = TicksPerDay
    /\ prompt = <<>>
    /\ reply = <<>>
    /\ intents = <<>>
    /\ op = "init"
    /\ pre = [pending_offer |-> "none", timer |-> FocusTimer, journal |-> <<>>,
              history |-> <<>>, peer |-> NoSession]
    /\ ret = None
    /\ started = NeverStarted
    /\ paused_at = NeverPaused
    /\ ticks = 0
    /\ section = "Chat"
    /\ user = "u"
    /\ peer = NoSession
    /\ actor = 0
    /\ rows = <<>>
    /\ streak = NoStreak
    /\ calls = <<>>
    /\ \E h \in UtcOffsetHours : utc_offset = h * HourTicks

\* a chat turn up to its st.rerun(): the turn is processed, then the chat page
\* is drawn again and shows compute_7day_streak_from_journal()
ChatTurnRerun(p) ==
    /\ p # <<>>
    /\ Len(history) + 2 <= 2 * MaxTurns
    /\ Len(journal) < MaxEntries
    /\ LET r == chat_turn(pending_offer, journal, p, now)
       IN  /\ pending_offer' = r.pending_offer
           /\ journal' = r.journal
           /\ reply' = r.reply
           /\ history' = history \o << <<"user", p>>, <<"assistant", r.reply>> >>
           /\ \E rs \in get_journals(r.journal, 500) :
                 /\ rows' = rs
                 /\ streak' = compute_7day_streak_from_journal(rs, local_now)
    /\ prompt' = p
    /\ op' = "chat"
    /\ pre' = Snapshot
    /\ UNCHANGED <<timer, now, intents, tvars, page_vars, calls, utc_offset>>

NextClocks ==
    \/ \E p \in PageTexts : ChatTurnRerun(p)
    \/ \E text \in PageNotes : SaveJournal(text)
    \/ \E d \in ClockSteps : Advance(d)

SpecClocks == InitClocks /\ [][NextClocks]_vars

---------------------------------------------------------------------------
(* detect_intents on every text of Texts *)

InitIntents ==
    /\ pending_offer = "none"
    /\ timer = FocusTimer
    /\ journal = <<>>
    /\ history = <<>>
    /\ now = 0
    /\ prompt \in Texts
    /\ reply = <<>>
    /\ intents = <<>>
    /\ op = "input"
    /\ pre = [pending_offer |-> "none", timer |-> FocusTimer, journal |-> <<>>,
              history |-> <<>>, peer |-> NoSession]
    /\ ret = None
    /\ started = NeverStarted
    /\ paused_at = NeverPaused
    /\ ticks = 0
    /\ section = "Chat"
    /\ user = "u"
    /\ peer = NoSession
    /\ actor = 0
    /\ rows = <<>>
    /\ streak = NoStreak
    /\ calls = <<>>
    /\ utc_offset = 0

DetectIntents ==
    /\ op = "input"
    /\ intents' = detect_intents(prompt)
    /\ op' = "detect_intents"
    /\ UNCHANGED <<pending_offer, timer, journal, history, now, prompt, reply, pre>>
    /\ UNCHANGED <<tvars, page_vars, read_vars, utc_offset, calls>>

NextIntents == DetectIntents

SpecIntents == InitIntents /\ [][NextIntents]_vars

---------------------------------------------------------------------------
(* Properties of chat turn processing (checked under Spec) *)

ChatTurnDone == op = "chat"

\* the turn carries a timer/focus keyword, a journal/note keyword
HasTimerKeyword(p) ==
    KeywordIn("timer", strip(lower(p))) \/ KeywordIn("focus", strip(lower(p)))

HasJournalKeyword(p) ==
    KeywordIn("journal", strip(lower(p))) \/ KeywordIn("note", strip(lower(p)))

\* the last case of the timer_or_journal branch
FallsThrough(p) ==
    ~HasTimerKeyword(p) /\ ~HasJournalKeyword(p) /\ ~_is_affirmation(p)

\* the user turns of the history, oldest first
UserTurns ==
    LET IsUser(e) == e[1] = "user"
        us == SelectSeq(history, IsUser)
    IN  [i \in 1..Len(us) |-> us[i][2]]

MoodLabels ==
    {"anxiety_worry", "low_mood_depression", "stress_overwhelm", "loneliness_isolation"}

\* C1: in every OfferState a turn whose text matches the crisis pattern yields
\* the crisis safety message and nothing else: no journal append, no timer
\* request, no offer armed or advanced.
C1_CrisisSuppressesAll ==
    (ChatTurnDone /\ Search(RISK, prompt))
    => /\ reply = <<"h_crisis">>
       /\ journal = pre.journal
       /\ timer = pre.timer
       /\ pending_offer \in {pre.pending_offer, "none"}

\* C6: in OfferState timer_or_journal a turn with a timer/focus keyword clears
\* the offer and starts the timer for the extracted duration (10 minutes when
\* none is given): the timer is Running with duration_sec = max(60, minutes*60).
C6_KeywordStartsTimer ==
    (ChatTurnDone /\ pre.pending_offer = "timer_or_journal" /\ HasTimerKeyword(prompt))
    => /\ pending_offer = "none"
       /\ timer.running /\ ~timer.paused
       /\ timer.duration_sec = Max(60, _extract_minutes(prompt, 10) * 60)

\* C7: in OfferState timer_or_journal the turn "20 min" starts the timer for 20
\* minutes and the offer returns to none.
C7_DurationOnlyStartsTimer ==
    (ChatTurnDone /\ pre.pending_offer = "timer_or_journal"
       /\ strip(lower(prompt)) = <<"20", "min">>)
    => /\ pending_offer = "none"
       /\ timer.running
       /\ timer.duration_sec = 20 * 60
       /\ timer.end_time = now + 20 * 60 * TicksPerSecond

\* C8 as stated: in OfferState none the offer is armed whenever detect_intents
\* gives a mood-style label for the turn; a direct call of handle_turn never arms.
C8_IntentMoodLabelArms ==
    /\ (ChatTurnDone /\ pre.pending_offer = "none"
          /\ \E i \in 1..Len(detect_intents(prompt)) :
                detect_intents(prompt)[i] \in MoodLabels)
       => pending_offer = "timer_or_journal"
    /\ op = "summarize_week" => pending_offer = pre.pending_offer

\* C8 amended: in OfferState none the offer is armed exactly when detect_mood
\* (MOOD_PATTERNS) finds a mood in the turn, and then the reply is the empathetic
\* one; otherwise the offer stays none and the reply is handle_turn's.  A direct
\* call of handle_turn (Summarize my week) never changes the offer.
C8_MoodPatternArms ==
    /\ (ChatTurnDone /\ pre.pending_offer = "none")
       => IF detect_mood(prompt) # "None"
          THEN /\ pending_offer = "timer_or_journal"
               /\ reply = empathetic_reply(detect_mood(prompt), prompt)
          ELSE /\ pending_offer = "none"
               /\ reply = handle_turn(prompt)
    /\ op = "summarize_week" => pending_offer = pre.pending_offer

\* a mood turn in OfferState none, with a mood-style intent label, arms the offer
C8_Witness ==
    /\ ChatTurnDone /\ pre.pending_offer = "none"
    /\ detect_mood(prompt) = "anxious"
    /\ detect_intents(prompt) = <<"anxiety_worry">>
    /\ pending_offer = "timer_or_journal"

\* C9: in OfferState timer_or_journal a bare affirmation leaves the offer
\* pending, changes neither the timer nor the journal, and re-asks the choice.
C9_AffirmationReasks ==
    (ChatTurnDone /\ pre.pending_offer = "timer_or_journal" /\ _is_affirmation(prompt))
    => /\ pending_offer = "timer_or_journal"
       /\ timer = pre.timer
       /\ journal = pre.journal
       /\ reply = <<"Great-should I start a focus timer or add a journal note?">>

\* two affirmations in a row after the offer, with the timer running
C9_Witness ==
    /\ ChatTurnDone /\ pre.pending_offer = "timer_or_journal"
    /\ Len(UserTurns) >= 3
    /\ _is_affirmation(UserTurns[Len(UserTurns)])
    /\ _is_affirmation(UserTurns[Len(UserTurns) - 1])
    /\ timer.running
    /\ pending_offer = "timer_or_journal"

\* C10 as stated: the last case of the timer_or_journal branch handles the turn
\* exactly as OfferState none would: same reply, same resulting OfferState.
C10_FallThroughAsNone ==
    (ChatTurnDone /\ pre.pending_offer = "timer_or_journal" /\ FallsThrough(prompt))
    => LET n == normal_branch("none", pre.journal, prompt, now)
       IN  reply = n.reply /\ pending_offer = n.pending_offer

\* C10 amended: the last case clears the offer and replies with handle_turn of
\* the same text, the journal untouched; that is what OfferState none does with
\* the text exactly when detect_mood finds no mood in it.
C10_FallThroughHandleTurn ==
    (ChatTurnDone /\ pre.pending_offer = "timer_or_journal" /\ FallsThrough(prompt))
    => /\ pending_offer = "none"
       /\ reply = handle_turn(prompt)
       /\ journal = pre.journal
       /\ LET n == normal_branch("none", pre.journal, prompt, now)
          IN  (reply = n.reply /\ pending_offer = n.pending_offer)
                 <=> detect_mood(prompt) = "None"

\* a mood turn that falls through: intent reply, offer not re-armed
C10_Witness ==
    /\ ChatTurnDone /\ pre.pending_offer = "timer_or_journal" /\ FallsThrough(prompt)
    /\ detect_mood(prompt) # "None"
    /\ reply = <<"h_anxiety">>
    /\ pending_offer = "none"

\* C11: in OfferState await_journal_text a turn whose trimmed text is non-empty
\* appends exactly one journal entry, whose text is the trimmed text verbatim,
\* clears the offer and offers the weekly summary; a turn whose trimmed text is
\* empty appends nothing, leaves the offer and re-prompts.
C11_JournalTextSaved ==
    (ChatTurnDone /\ pre.pending_offer = "await_journal_text")
    => IF strip(prompt) # <<>>
       THEN /\ Len(journal) = Len(pre.journal) + 1
            /\ SubSeq(journal, 1, Len(pre.journal)) = pre.journal
            /\ journal[Len(journal)].text = strip(prompt)
            /\ pending_offer = "none"
            /\ reply = <<"Added to your journal. Want a weekly summary?">>
       ELSE /\ journal = pre.journal
            /\ pending_offer = "await_journal_text"
            /\ reply = <<"Tell me the note to add and I'll save it.">>

\* a note typed with blanks around it and a capital is saved trimmed, case kept
C11_Witness ==
    /\ ChatTurnDone /\ pre.pending_offer = "await_journal_text"
    /\ prompt = <<WS, "OK", WS>>
    /\ Len(journal) = 1 /\ journal[1].text = <<"OK">>
    /\ pending_offer = "none"

\* a whitespace-only turn in await_journal_text: nothing saved, offer kept
C11_WitnessEmpty ==
    /\ ChatTurnDone /\ pre.pending_offer = "await_journal_text"
    /\ prompt = <<WS>>
    /\ journal = <<>>
    /\ pending_offer = "await_journal_text"

---------------------------------------------------------------------------
(* Properties of detect_intents (checked under SpecIntents) *)

Detected == op = "detect_intents"

\* the topical labels whose pattern matches the text, as a set
TopicalMatched(t) == {k \in Range(priority) : Search(INTENT_PATTERNS[k], t)}

EscalationMatched(t) ==
    Search(RISK, t) \/ Search(PANIC, t) \/ Search(HEALTH_ALERT, t)

\* the position of a label in the priority list
Rank(k) == CHOOSE i \in 1..Len(priority) : priority[i] = k

\* the label of S that comes first in the priority list
First(S) == CHOOSE k \in S : \A m \in S : Rank(k) <= Rank(m)

\* t with its tokens i and i+1 exchanged
Swap(t, i) ==
    [k \in 1..Len(t) |-> IF k = i THEN t[i + 1] ELSE IF k = i + 1 THEN t[i] ELSE t[k]]

\* C2: for every text that matches the crisis (RISK) pattern, detect_intents
\* returns exactly [crisis_risk], whatever else the text matches.
C2_CrisisOnly ==
    (Detected /\ Search(RISK, prompt)) => intents = <<"crisis_risk">>

\* a text that matches RISK, PANIC, HEALTH_ALERT and a topical pattern at once
C2_Witness ==
    /\ Detected
    /\ Search(RISK, prompt) /\ Search(PANIC, prompt) /\ Search(HEALTH_ALERT, prompt)
    /\ TopicalMatched(prompt) # {}
    /\ intents = <<"crisis_risk">>

\* C3: crisis is tested before panic and panic before health-alert, the result is
\* the single label of the first that matches; at most one escalation label ever
\* appears in a result, and when one appears it is the only label.
C3_EscalationExclusive ==
    Detected =>
        /\ Search(RISK, prompt) => intents = <<"crisis_risk">>
        /\ (~Search(RISK, prompt) /\ Search(PANIC, prompt))
              => intents = <<"panic_attack">>
        /\ (~Search(RISK, prompt) /\ ~Search(PANIC, prompt)
              /\ Search(HEALTH_ALERT, prompt)) => intents = <<"health_concern">>
        /\ Cardinality({i \in 1..Len(intents) : intents[i] \in EscalationLabels}) <= 1
        /\ (\E i \in 1..Len(intents) : intents[i] \in EscalationLabels)
              => Len(intents) = 1

\* a text that matches panic and health-alert but not crisis gives [panic_attack]
C3_Witness ==
    /\ Detected
    /\ ~Search(RISK, prompt) /\ Search(PANIC, prompt) /\ Search(HEALTH_ALERT, prompt)
    /\ intents = <<"panic_attack">>

\* C4: a text that matches no escalation pattern and three or more topical
\* patterns gives exactly two labels, the two matched labels that come first in
\* the priority list, in that order; exchanging two neighbouring tokens of the
\* text (which leaves the matched labels as they are) does not change the result.
C4_TwoByPriority ==
    (Detected /\ ~EscalationMatched(prompt) /\ Cardinality(TopicalMatched(prompt)) >= 3)
    => LET M == TopicalMatched(prompt)
       IN  /\ Len(intents) = 2
           /\ intents[1] = First(M)
           /\ intents[2] = First(M \ {First(M)})
           /\ \A i \in 1..(Len(prompt) - 1) :
                 (~EscalationMatched(Swap(prompt, i))
                    /\ TopicalMatched(Swap(prompt, i)) = M)
                 => detect_intents(Swap(prompt, i)) = intents

\* three topical terms given in the reverse of their priority order
C4_Witness ==
    /\ Detected
    /\ prompt = <<"work", "stressed", "anxious">>
    /\ intents = <<"anxiety_worry", "stress_overwhelm">>

\* C5: every result is a list of one or two labels of the closed label set, never
\* empty; when no escalation and no topical pattern matches it is [small_talk].
C5_OneOrTwoLabels ==
    Detected =>
        /\ Len(intents) \in {1, 2}
        /\ \A i \in 1..Len(intents) : intents[i] \in IntentLabel
        /\ (~EscalationMatched(prompt) /\ TopicalMatched(prompt) = {})
              => intents = <<"small_talk">>

\* a non-empty text that no pattern matches
C5_Witness ==
    /\ Detected
    /\ prompt # <<>>
    /\ ~EscalationMatched(prompt) /\ TopicalMatched(prompt) = {}
    /\ intents = <<"small_talk">>

---------------------------------------------------------------------------
(* Properties of the FocusTimer (checked under SpecTimer) *)

Idle(t) == ~t.running

Running(t) == t.running /\ ~t.paused

Paused(t) == t.running /\ t.paused

Done == "Time's up! Take a short break."

\* C12: start(minutes) called in any state re-initializes the timer: it is
\* Running and not paused, duration_sec = max(60, minutes*60), end_time = now +
\* duration_sec, and no field keeps a value of the previous countdown.
C12_StartReinitializes ==
    op = "start"
    => LET d == IF started.minutes * 60 >= 60 THEN started.minutes * 60 ELSE 60
       IN  /\ timer.running /\ ~timer.paused
           /\ timer.duration_sec = d
           /\ timer.end_time = now + d * TicksPerSecond
           /\ timer.remaining_sec = d

\* a Paused two-minute countdown, partly run, restarted for one minute
C12_Witness ==
    /\ op = "start"
    /\ Paused(pre.timer) /\ pre.timer.duration_sec = 120
    /\ pre.timer.remaining_sec < 120
    /\ started.minutes = 1
    /\ Running(timer) /\ timer.duration_sec = 60

\* C13: after start(m), for any m, with the clock advanced by m*60 seconds,
\* status_text() returns the completion message and leaves the timer Idle.
C13_ExpiresAfterMinutes ==
    ( /\ op = "status_text"
      /\ started.clean
      /\ pre.timer.running
      /\ now = started.at + started.minutes * 60 * TicksPerSecond )
    => (ret.kind = Done /\ timer = FocusTimer)

\* C13 as the code has it: the clock advanced by duration_sec = max(60, m*60)
\* seconds, which is m*60 seconds for m >= 1.
C13_ExpiresAfterDuration ==
    ( /\ op = "status_text"
      /\ started.clean
      /\ pre.timer.running
      /\ now = started.at + Max(60, started.minutes * 60) * TicksPerSecond )
    => (ret.kind = Done /\ timer = FocusTimer)

\* start(2), two minutes pass, status_text() completes the countdown
C13_Witness ==
    /\ op = "status_text"
    /\ started.clean
    /\ started.minutes = 2
    /\ now = started.at + 120 * TicksPerSecond
    /\ Running(pre.timer)
    /\ ret.kind = Done /\ timer = FocusTimer

\* C14: status_text() on a Running, unpaused timer with 0 whole seconds left
\* moves it to Idle and returns the completion message, once per start: every
\* later status_text() until the next start returns the idle message and
\* changes nothing.
C14_CompletionOnce ==
    /\ started.completions <= 1
    /\ ( /\ op = "status_text"
         /\ Running(pre.timer)
         /\ Max(0, int(pre.timer.end_time - now)) = 0 )
       => (ret.kind = Done /\ timer = FocusTimer)
    /\ (op = "status_text" /\ ret.kind = Done)
       => (Running(pre.timer) /\ Max(0, int(pre.timer.end_time - now)) = 0)
    /\ (op = "status_text" /\ started.completions = 1 /\ ret.kind # Done)
       => (ret.kind = "Timer is idle." /\ timer = pre.timer)

\* a second status_text() after the one that completed the countdown
C14_Witness ==
    /\ op = "status_text"
    /\ started.completions = 1
    /\ ret.kind = "Timer is idle."
    /\ timer = FocusTimer /\ pre.timer = FocusTimer

\* C16: pause() on a Running, unpaused timer moves it to Paused with
\* remaining_sec = max(0, end_time - now) in whole seconds and leaves
\* duration_sec and end_time unchanged.
C16_PauseSnapshots ==
    (op = "pause" /\ Running(pre.timer))
    => /\ Paused(timer)
       /\ timer.remaining_sec = Max(0, int(pre.timer.end_time - now))
       /\ timer.duration_sec = pre.timer.duration_sec
       /\ timer.end_time = pre.timer.end_time

\* a pause half a second into a one-minute countdown keeps 59 whole seconds
C16_Witness ==
    /\ op = "pause" /\ Running(pre.timer)
    /\ pre.timer.duration_sec = 60
    /\ pre.timer.end_time - now = 60 * TicksPerSecond - 1
    /\ timer.remaining_sec = 59

\* a pause after the end of the countdown keeps 0 seconds
C16_WitnessExpired ==
    /\ op = "pause" /\ Running(pre.timer)
    /\ pre.timer.end_time < now
    /\ Paused(timer) /\ timer.remaining_sec = 0

\* C15: pause() then resume() with no time between them leaves remaining_sec
\* unchanged and the time left on the countdown, end_time - now, equal to what
\* it was just before the pause; resume() sets end_time = now + remaining_sec.
C15_PauseResumeNoLeak ==
    (op = "resume" /\ Paused(pre.timer) /\ paused_at.at = now)
    => /\ timer.remaining_sec = pre.timer.remaining_sec
       /\ timer.end_time - now = paused_at.left
       /\ timer.end_time = now + timer.remaining_sec * TicksPerSecond

\* C17: pause() when Idle or already Paused, and resume() when Idle or Running,
\* leave every field of the timer unchanged.
C17_NoOpOutsideSourceState ==
    /\ (op = "pause" /\ ~Running(pre.timer)) => timer = pre.timer
    /\ (op = "resume" /\ ~Paused(pre.timer)) => timer = pre.timer

\* pause() on a timer paused earlier, after the clock has moved on
C17_Witness ==
    /\ op = "pause" /\ Paused(pre.timer)
    /\ paused_at.at < now
    /\ pre.timer.remaining_sec # Max(0, int(pre.timer.end_time - now))
    /\ timer = pre.timer

\* resume() on a Running timer; pause() and resume() on an Idle one
C17_WitnessResumeRunning == op = "resume" /\ Running(pre.timer) /\ timer = pre.timer

C17_WitnessIdle == op \in {"pause", "resume"} /\ Idle(pre.timer) /\ timer = pre.timer

\* C18: stop() from Running or Paused moves the timer to Idle with running and
\* paused false and duration_sec, end_time and remaining_sec 0; stop() again
\* changes nothing.
C18_StopResets ==
    op = "stop"
    => /\ timer.running = FALSE /\ timer.paused = FALSE
       /\ timer.duration_sec = 0 /\ timer.end_time = 0 /\ timer.remaining_sec = 0
       /\ Idle(pre.timer) => timer = pre.timer

\* stop() of a Paused timer that holds a snapshot of the time left
C18_Witness ==
    /\ op = "stop"
    /\ Paused(pre.timer) /\ pre.timer.remaining_sec > 0
    /\ timer = FocusTimer

\* stop() of a timer that a stop() has already reset
C18_WitnessAgain ==
    /\ op = "stop"
    /\ pre.timer = FocusTimer /\ ~started.clean /\ started.completions = 0
    /\ started.minutes = 2
    /\ timer = FocusTimer

\* C19: in every reachable timer state and at every clock value
\* progress_ratio() returns a value in [0, 1] without dividing by zero: 0 in
\* Idle and immediately after start, (total - max(0, end_time - now)) / total
\* in Running, (total - remaining_sec) / total in Paused; it changes no field.
\* The value returned is ret.a / ret.b; end_time - now is in ticks.
C19_ProgressRatio ==
    op = "progress_ratio"
    => LET total == pre.timer.duration_sec
       IN  /\ ret.b # 0
           /\ 0 <= ret.a /\ ret.a <= ret.b
           /\ Idle(pre.timer) => ret.a = 0
           /\ (Running(pre.timer) /\ started.clean /\ started.at = now) => ret.a = 0
           /\ Running(pre.timer)
              => ret.a * total * TicksPerSecond
                 = ret.b * (total * TicksPerSecond - Max(0, pre.timer.end_time - now))
           /\ Paused(pre.timer)
              => ret.a * total = ret.b * (total - pre.timer.remaining_sec)
           /\ timer = pre.timer

\* C19 as the code has it: in Running the time left is taken in whole seconds,
\* max(0, int(end_time - now)).
C19_ProgressRatioWholeSeconds ==
    op = "progress_ratio"
    => LET total == pre.timer.duration_sec
       IN  /\ ret.b # 0
           /\ 0 <= ret.a /\ ret.a <= ret.b
           /\ Idle(pre.timer) => ret.a = 0
           /\ (Running(pre.timer) /\ started.clean /\ started.at = now) => ret.a = 0
           /\ Running(pre.timer)
              => ret.a * total
                 = ret.b * (total - Max(0, int(pre.timer.end_time - now)))
           /\ Paused(pre.timer)
              => ret.a * total = ret.b * (total - pre.timer.remaining_sec)
           /\ timer = pre.timer

\* progress_ratio() read half a second into a one-minute countdown: 1/60
C19_Witness ==
    /\ op = "progress_ratio"
    /\ Running(pre.timer) /\ pre.timer.duration_sec = 60
    /\ pre.timer.end_time - now = 60 * TicksPerSecond - 1
    /\ ret.a = 1 /\ ret.b = 60

\* progress_ratio() of a Paused timer after the clock has passed its end_time
C19_WitnessPaused ==
    /\ op = "progress_ratio"
    /\ Paused(pre.timer) /\ pre.timer.end_time < now
    /\ pre.timer.remaining_sec > 0
    /\ ret.a * pre.timer.duration_sec
       = ret.b * (pre.timer.duration_sec - pre.timer.remaining_sec)

\* progress_ratio() of a Running timer past its end_time: 1
C19_WitnessExpired ==
    /\ op = "progress_ratio"
    /\ Running(pre.timer) /\ pre.timer.end_time < now
    /\ ret.a = ret.b

\* C20: duration_sec >= 60 whenever the timer is Running or Paused, for every
\* minutes value and every sequence of calls.
C20_DurationAtLeastAMinute == timer.running => timer.duration_sec >= 60

\* a timer started with a negative minutes value, then paused
C20_Witness ==
    /\ started.minutes < 0
    /\ Paused(timer)
    /\ timer.duration_sec = 60

---------------------------------------------------------------------------
(* Properties of the session: timer requests, the journal, the offer *)

\* C21: a timer start request whose minutes value is out of range (0, or more
\* than the maximum of the timer page) is not rejected and is clamped: the
\* timer is Running with duration_sec within [60, maximum*60], also when the
\* request comes from a chat turn.
C21_OutOfRangeClamped ==
    ( /\ ChatTurnDone
      /\ pre.pending_offer = "timer_or_journal"
      /\ HasTimerKeyword(prompt)
      /\ _extract_minutes(prompt, 10) \notin 1..TimerPageMax )
    => /\ Running(timer)
       /\ timer.duration_sec >= 60
       /\ timer.duration_sec <= TimerPageMax * 60
\* C22: with two sessions, no operation performed by one session (chat turn,
\* start, pause, resume, stop, status_text) changes the OfferState or the
\* TimerState the other session observes.
C22_SessionsIsolated ==
    \A s \in Sessions :
        (actor \in Sessions /\ actor # s)
        => /\ session_state(s).pending_offer
              = (IF s = 1 THEN pre.pending_offer ELSE pre.peer.pending_offer)
           /\ ObservedTimer(s) = pre.timer
\* the half of C22 that holds: pending_offer lives in st.session_state, so a
\* session's OfferState is changed by its own chat turns alone
C22_OfferStateIsolated ==
    \A s \in Sessions :
        (actor \in Sessions /\ actor # s)
        => session_state(s).pending_offer
           = (IF s = 1 THEN pre.pending_offer ELSE pre.peer.pending_offer)
\* both calls have returned
Returned == calls # <<>> /\ \A i \in Threads : calls[i].pc = 0

\* C23: for concurrent calls of pause(), resume(), start() and stop() whose
\* field reads and writes interleave, the final timer state equals the state
\* some sequential order of the calls produces.
C23_Serializable ==
    Returned
    => \/ timer = method_call(method_call(pre.timer, calls[1], now), calls[2], now)
       \/ timer = method_call(method_call(pre.timer, calls[2], now), calls[1], now)
\* a lost pause with a stale remaining_sec: pause() and resume() called together
\* on a timer that has run for a minute leave it Running with the whole
\* duration ahead again
C23_StaleResume ==
    /\ Returned
    /\ calls[1].method = "pause" /\ calls[2].method = "resume"
    /\ Running(pre.timer) /\ pre.timer.end_time < now + pre.timer.duration_sec * TicksPerSecond
    /\ Running(timer)
    /\ timer.end_time = now + timer.duration_sec * TicksPerSecond
---------------------------------------------------------------------------
(* Properties of the streak (checked under SpecStreak) *)

\* the dates of the journal entries, and today
EntryDates == {date(journal[i].ts) : i \in 1..Len(journal)}

Today == date(local_now)

\* the consecutive days with an entry, counted back from today to the first gap
ConsecutiveDays ==
    CHOOSE k \in 0..Cardinality(EntryDates) + 1 :
        /\ \A i \in 0..k - 1 : Today - i \in EntryDates
        /\ Today - k \notin EntryDates

C24_WitnessThree ==
    /\ op = "streak"
    /\ EntryDates = {Today, Today - 1, Today - 2}
    /\ streak.streak = 3
---------------------------------------------------------------------------
(* Properties of the journal table (checked under SpecJournal) *)

IsPrefix(a, b) == Len(a) <= Len(b) /\ SubSeq(b, 1, Len(a)) = a

\* C25: after add_journal(text), get_journals(limit) with limit >= 1 returns
\* that entry, the last one added, as its first item with the text unchanged,
\* whatever the journal held before and also when entries were added without
\* the clock advancing between them; no operation removes or alters an entry.
C25_NewestFirst ==
    /\ IsPrefix(pre.journal, journal)
    /\ (op = "get_journals" /\ journal # <<>>)
       => (rows # <<>> /\ rows[1] = journal[Len(journal)])

\* the part of C25 that holds: the entry added last is returned first when its
\* ts is later than every other ts, and the table only grows
C25_NewestFirstByClock ==
    /\ IsPrefix(pre.journal, journal)
    /\ ( /\ op = "get_journals" /\ journal # <<>>
         /\ \A i \in 1..Len(journal) - 1 : journal[i].ts < journal[Len(journal)].ts )
       => (rows # <<>> /\ rows[1] = journal[Len(journal)])
---------------------------------------------------------------------------
(* Properties of the chat turns (checked under Spec) *)

\* C26: every chat turn with non-empty text, in every OfferState and for every
\* text (whitespace-only text and text matching no pattern too), produces one
\* non-empty reply and appends exactly the pair (user turn, assistant reply) to
\* the history; every label detect_intents returns has a handler.
C26_AlwaysReplies ==
    ChatTurnDone
    => /\ reply # <<>>
       /\ \A i \in 1..Len(reply) : reply[i] # ""
       /\ history = pre.history \o << <<"user", prompt>>, <<"assistant", reply>> >>
       /\ \A i \in 1..Len(detect_intents(prompt)) :
              detect_intents(prompt)[i] \in HandlerKeys
       /\ handle_turn(prompt) # <<>>

\* the last part of C26 on every text over Vocab (checked under SpecIntents)
C26_EveryLabelHandled ==
    op = "detect_intents"
    => /\ \A i \in 1..Len(intents) : intents[i] \in HandlerKeys
       /\ handle_turn(prompt) # <<>>

\* a whitespace-only turn with no offer pending is answered as small talk
C26_Witness ==
    /\ ChatTurnDone
    /\ prompt = <<WS>>
    /\ pre.pending_offer = "none"
    /\ reply = <<"h_smalltalk">>
    /\ Len(history) = Len(pre.history) + 2

\* C27: OfferState takes the values none, timer_or_journal, await_journal_text
\* alone and moves only along: none -> timer_or_journal (mood turn),
\* timer_or_journal -> await_journal_text (journal/note keyword),
\* timer_or_journal -> none (timer/focus keyword or fall-through),
\* await_journal_text -> none (non-empty note), staying where it is otherwise;
\* await_journal_text is never entered from none, and a turn with both a
\* timer/focus and a journal/note keyword takes the timer edge.
C27_OfferEdges ==
    /\ pending_offer \in {"none", "timer_or_journal", "await_journal_text"}
    /\ ~ChatTurnDone => pending_offer = pre.pending_offer
    /\ (ChatTurnDone /\ pre.pending_offer = "none")
       => pending_offer = (IF detect_mood(prompt) # "None" THEN "timer_or_journal"
                           ELSE "none")
    /\ (ChatTurnDone /\ pre.pending_offer = "timer_or_journal")
       => pending_offer = (IF HasTimerKeyword(prompt) THEN "none"
                           ELSE IF HasJournalKeyword(prompt) THEN "await_journal_text"
                           ELSE IF _is_affirmation(prompt) THEN "timer_or_journal"
                           ELSE "none")
    /\ (ChatTurnDone /\ pre.pending_offer = "await_journal_text")
       => pending_offer = (IF strip(prompt) # <<>> THEN "none" ELSE "await_journal_text")

\* a turn with "timer" and "note" in timer_or_journal takes the timer edge
C27_Witness ==
    /\ ChatTurnDone
    /\ pre.pending_offer = "timer_or_journal"
    /\ HasTimerKeyword(prompt) /\ HasJournalKeyword(prompt)
    /\ pending_offer = "none"
---------------------------------------------------------------------------
(* Properties of the pages (checked under SpecPages) *)

\* C28: OfferState is changed by chat turn processing alone: the Timer page
\* actions, the Journal page actions, section navigation and Log out leave it
\* unchanged, so an offer armed before a logout is still pending for the first
\* chat turn after the next login.
C28_OfferOnlyByChat ==
    /\ ~ChatTurnDone => pending_offer = pre.pending_offer
    /\ user = "None" => pending_offer = pre.pending_offer
    /\ (ChatTurnDone /\ pre.history = <<>> /\ pre.pending_offer = "timer_or_journal")
       => pending_offer = (IF HasTimerKeyword(prompt) THEN "none"
                           ELSE IF HasJournalKeyword(prompt) THEN "await_journal_text"
                           ELSE IF _is_affirmation(prompt) THEN "timer_or_journal"
                           ELSE "none")

\* the first chat turn after a logout and a login (the transcript is empty) is
\* read as the answer to the offer armed before the logout
C28_Witness ==
    /\ ChatTurnDone
    /\ pre.history = <<>>
    /\ pre.pending_offer = "timer_or_journal"
    /\ prompt = <<"note">>
    /\ pending_offer = "await_journal_text"

\* the texts of the entries a chat turn appended to the journal jrn0
Appended(jrn0, jrn1) == [i \in 1..Len(jrn1) - Len(jrn0) |-> jrn1[Len(jrn0) + i].text]

\* C29: the same (OfferState, turn text) pair gives the same next OfferState,
\* action and reply, whatever the clock, the timer state, the journal content
\* and the chat history: the outcome is the one the pair has with an empty
\* journal at time 0, and the timer is left alone.
C29_Deterministic ==
    ChatTurnDone
    => LET r == chat_turn(pre.pending_offer, <<>>, prompt, 0)
       IN  /\ pending_offer = r.pending_offer
           /\ reply = r.reply
           /\ IsPrefix(pre.journal, journal)
           /\ Appended(pre.journal, journal) = Appended(<<>>, r.journal)
           /\ timer = pre.timer

\* a note saved by a chat turn with the clock advanced, the timer running, the
\* journal and the history not empty
C29_Witness ==
    /\ ChatTurnDone
    /\ pre.pending_offer = "await_journal_text"
    /\ now > 0
    /\ pre.timer.running
    /\ pre.journal # <<>>
    /\ pre.history # <<>>
    /\ Len(journal) = Len(pre.journal) + 1
    /\ pending_offer = "none"
---------------------------------------------------------------------------
(* Progress of one countdown (checked under SpecTimer) *)

\* the ratio x.a / x.b is at most y.a / y.b
RatioLeq(x, y) == x.a * y.b <= y.a * x.b

\* C30: between a start() and the next start() or stop(), as the clock
\* advances and under any sequence of pause(), resume() and progress_ratio()
\* calls, progress_ratio() never decreases: what it returns now is at least
\* the last value it returned since the start. While the timer is Paused,
\* progress_ratio() and status_text() return what they returned at the time
\* of the pause, whatever the clock, and status_text() leaves a Paused timer
\* Paused, even when remaining_sec is 0.
C30_ProgressNeverDecreases ==
    /\ timer.running => RatioLeq(started.ratio, progress_ratio(timer, now).ret)
    /\ (op = "progress_ratio" /\ pre.timer.running)
       => started.ratio.a * ret.b = ret.a * started.ratio.b
    /\ Paused(timer)
       => /\ paused_at.at >= 0 /\ paused_at.at <= now
          /\ progress_ratio(timer, now).ret = progress_ratio(timer, paused_at.at).ret
          /\ status_text(timer, now).ret = status_text(timer, paused_at.at).ret
          /\ status_text(timer, now).timer = timer
    /\ (op = "status_text" /\ Paused(pre.timer))
       => timer = pre.timer /\ ret.kind = "Paused - mm:ss remaining."

\* a countdown read, paused, resumed and run on: progress_ratio() would now
\* return more than it last returned
C30_Witness ==
    /\ op = "advance"
    /\ Running(timer)
    /\ paused_at.at >= started.at /\ paused_at.at < now
    /\ started.ratio.a > 0
    /\ ~RatioLeq(progress_ratio(timer, now).ret, started.ratio)

\* status_text() of a timer paused after its end_time, read later on
C30_WitnessPausedAtZero ==
    /\ op = "status_text"
    /\ Paused(pre.timer) /\ pre.timer.remaining_sec = 0
    /\ paused_at.at < now
    /\ Paused(timer)
---------------------------------------------------------------------------
(* The streak after an append (checked under SpecClocks) *)

\* the chat turn just processed appended a journal entry
ChatTurnAppended == ChatTurnDone /\ Len(journal) = Len(pre.journal) + 1

\* C31: immediately after a journal entry is appended, the streak shown by
\* the chat page is at least 1, for every offset between the UTC clock that
\* stamps journal entries and the local clock that supplies today.
C31_StreakAfterAppend == ChatTurnAppended => streak.streak >= 1

\* the streak after an append is at least 1 when the UTC date and the local
\* date are the same day, and 0 when they are not and no entry has the local
\* date
C31_StreakAfterAppendSameDate ==
    ChatTurnAppended
    => /\ date(now) = date(local_now) => streak.streak >= 1
       /\ (date(now) # date(local_now) /\ date(local_now) \notin EntryDates)
          => streak.streak = 0

\* an entry appended at 18:00 UTC or later on a server ten hours ahead of UTC
C31_AppendedAcrossMidnight ==
    /\ ChatTurnAppended
    /\ utc_offset = 10 * HourTicks
    /\ date(local_now) = date(now) + 1
    /\ streak.streak = 0

===========================================================================
